---- MODULE Spec2Model ----
(***************************************************************************)
(* Model of the API key rotation system (class APIKeyManager) and of the   *)
(* POST /api/chat handler of JustAskIT, src/shared/schema.ts lines 760 to  *)
(* 1054.  Times are milliseconds, as returned by Date.now().               *)
(***************************************************************************)
EXTENDS Integers, Sequences, FiniteSets, TLC

(***************************************************************************)
(* Bounds of the model.                                                    *)
(***************************************************************************)
\* largest number of environment slots that hold a key
MaxKeys == 2
\* number of clock steps of TickStep the model follows
MaxTicks == 3
\* number of lines of an upstream body
MaxLines == 3
\* largest advance of the clock between two Date.now() of one synchronous run
SyncDrift == 1

(***************************************************************************)
(* Program constants.                                                      *)
(***************************************************************************)
\* for (let i = 1; i <= 5; i++)
NumSlots == 5
\* markKeyAsRateLimited(key, duration = 60000)
DefaultDuration == 60000

\* the clock advances between two turns of the event loop in steps of 30 s
TickStep == DefaultDuration \div 2
MaxTime == MaxTicks * TickStep
\* the durations a direct caller of markKeyAsRateLimited passes
Durations == {DefaultDuration, DefaultDuration \div 2}

\* secret strings of the process environment
Secrets == {"A", "B"}
\* a secret that is in no pool
Stranger == "X"
\* an environment variable that is not set (or is the empty string)
Unset == "<unset>"
\* the null returned by getNextAvailableKey
NoKey == "<null>"
\* a duration argument that is not passed (undefined)
NoDuration == -1

VARIABLES
    env,                  \* process.env: the numbered slots and the single key
    keys,                 \* APIKeyManager.keys
    currentKeyIndex,      \* APIKeyManager.currentKeyIndex
    keyRateLimitedUntil,  \* APIKeyManager.keyRateLimitedUntil (a Map)
    now,                  \* Date.now()
    lastSel,              \* the getNextAvailableKey call that has just returned
    allResult,            \* the allKeysRateLimited call that has just returned
    promised,             \* per secret, the largest now + d of the penalize calls made
    latestPen,            \* per pool index, now + d of the latest penalize call that hit it
    selSeq,               \* the selections made since the last recorded penalty
    penCall,              \* the markKeyAsRateLimited call that has just returned
    req                   \* per chat request in flight: the handler's locals and its response

mgrVars == <<env, keys, currentKeyIndex, keyRateLimitedUntil>>
ghostVars == <<lastSel, allResult, promised, latestPen, selSeq, penCall>>
vars == <<env, keys, currentKeyIndex, keyRateLimitedUntil, now,
          lastSel, allResult, promised, latestPen, selSeq, penCall, req>>

(***************************************************************************)
(* The Map keyRateLimitedUntil: a function whose domain is the set of the  *)
(* indices that have an entry.                                             *)
(***************************************************************************)
EmptyMap == [x \in {} |-> 0]

\* this.keyRateLimitedUntil.get(keyIndex) || 0
MapGet(m, k) == IF k \in DOMAIN m /\ m[k] # 0 THEN m[k] ELSE 0

\* this.keyRateLimitedUntil.set(keyIndex, v)
MapSet(m, k, v) == [x \in (DOMAIN m) \cup {k} |-> IF x = k THEN v ELSE m[x]]

(***************************************************************************)
(* APIKeyManager.constructor                                               *)
(***************************************************************************)
RECURSIVE LoadKeys(_, _, _)
LoadKeys(e, i, acc) ==
    IF i > NumSlots THEN acc
    ELSE LoadKeys(e, i + 1,
                  IF e.numbered[i] # Unset THEN Append(acc, e.numbered[i]) ELSE acc)

ConstructorFallbackAlways(e) ==
    LET loaded == LoadKeys(e, 1, <<>>)
    IN IF e.single # Unset THEN Append(loaded, e.single) ELSE loaded

Constructor(e) ==
    LET loaded == LoadKeys(e, 1, <<>>)
    IN IF Len(loaded) = 0 /\ e.single # Unset THEN <<e.single>> ELSE loaded

(***************************************************************************)
(* APIKeyManager.getNextAvailableKey                                       *)
(***************************************************************************)
\* if (now >= rateLimitedUntil)
IsUsableOnlyUnpenalized(t, until) == until = 0
IsUsableAfter(t, until) == t > until
IsUsable(t, until) == t >= until

\* this.currentKeyIndex = (keyIndex + 1) % this.keys.length
NextCursorNoWrap(keyIndex, n) == keyIndex + 1
NextCursorStay(keyIndex, n) == keyIndex % n
NextCursor(keyIndex, n) == (keyIndex + 1) % n

NoSelection(cur) == [key |-> NoKey, idx |-> -1, cursor |-> cur]

RECURSIVE ScanKeys(_, _, _, _, _)
ScanKeys(ks, cur, tbl, t, i) ==
    IF i >= Len(ks) THEN NoSelection(cur)
    ELSE LET keyIndex == (cur + i) % Len(ks)
             rateLimitedUntil == MapGet(tbl, keyIndex)
         IN IF IsUsable(t, rateLimitedUntil)
            THEN [key |-> ks[keyIndex + 1], idx |-> keyIndex,
                  cursor |-> NextCursor(keyIndex, Len(ks))]
            ELSE ScanKeys(ks, cur, tbl, t, i + 1)

GetNextAvailableKeyUnchecked(ks, cur, tbl, t) ==
    IF Len(ks) = 0 THEN NoSelection(cur)
    ELSE [key |-> ks[cur + 1], idx |-> cur, cursor |-> NextCursor(cur, Len(ks))]

GetNextAvailableKey(ks, cur, tbl, t) ==
    IF Len(ks) = 0 THEN NoSelection(cur) ELSE ScanKeys(ks, cur, tbl, t, 0)

(***************************************************************************)
(* APIKeyManager.markKeyAsRateLimited                                      *)
(***************************************************************************)
\* this.keys.indexOf(key)
IndexOfOneBased(ks, key) ==
    LET hits == {i \in 1..Len(ks) : ks[i] = key}
    IN IF hits = {} THEN -1
       ELSE CHOOSE i \in hits : \A j \in hits : i <= j

IndexOfLast(ks, key) ==
    LET hits == {i \in 1..Len(ks) : ks[i] = key}
    IN IF hits = {} THEN -1
       ELSE (CHOOSE i \in hits : \A j \in hits : i >= j) - 1

IndexOf(ks, key) ==
    LET hits == {i \in 1..Len(ks) : ks[i] = key}
    IN IF hits = {} THEN -1
       ELSE (CHOOSE i \in hits : \A j \in hits : i <= j) - 1

\* Date.now() + duration
PenaltyExpiryNoDuration(t, duration) == t
PenaltyExpiry(t, duration) == t + duration

\* markKeyAsRateLimited(key: string, duration: number = 60000)
EffectiveDuration(duration) ==
    IF duration = NoDuration THEN DefaultDuration ELSE duration

MarkKeyAsRateLimitedKeepLonger(ks, tbl, key, duration, t) ==
    LET keyIndex == IndexOf(ks, key)
        old == MapGet(tbl, keyIndex)
        new == PenaltyExpiry(t, duration)
    IN IF keyIndex # -1 THEN MapSet(tbl, keyIndex, IF old > new THEN old ELSE new)
       ELSE tbl

MarkKeyAsRateLimitedEveryIndex(ks, tbl, key, duration, t) ==
    LET hit == {i \in 0..(Len(ks) - 1) : ks[i + 1] = key}
    IN [x \in (DOMAIN tbl) \cup hit |->
            IF x \in hit THEN PenaltyExpiry(t, duration) ELSE tbl[x]]

MarkKeyAsRateLimitedUnchecked(ks, tbl, key, duration, t) ==
    MapSet(tbl, IndexOf(ks, key), PenaltyExpiry(t, duration))

MarkKeyAsRateLimited(ks, tbl, key, duration, t) ==
    LET keyIndex == IndexOf(ks, key)
    IN IF keyIndex # -1 THEN MapSet(tbl, keyIndex, PenaltyExpiry(t, duration))
       ELSE tbl

(***************************************************************************)
(* APIKeyManager.allKeysRateLimited                                        *)
(***************************************************************************)
\* return now < rateLimitedUntil
StillLimitedInclusive(t, until) == t <= until
StillLimited(t, until) == t < until

AllKeysRateLimited(ks, tbl, t) ==
    \A index \in 0..(Len(ks) - 1) : StillLimited(t, MapGet(tbl, index))

(***************************************************************************)
(* The process environments the model starts from: only the first MaxKeys  *)
(* numbered slots may be set (each of them or not, so the first set slot   *)
(* need not be slot 1), the same secret possibly in two slots.             *)
(***************************************************************************)
Envs ==
    {e \in [numbered : [1..NumSlots -> Secrets \cup {Unset}],
            single : {Unset, "B"}] :
        \A i \in 1..NumSlots : i > MaxKeys => e.numbered[i] = Unset}

NoSel == [called |-> FALSE, key |-> NoKey, idx |-> -1, cur |-> 0, t |-> 0]
NoAll == [called |-> FALSE, value |-> FALSE]
NoPen == [called |-> FALSE, key |-> NoKey, duration |-> NoDuration]

InitManager(e) ==
    /\ env = e
    /\ keys = Constructor(e)
    /\ currentKeyIndex = 0
    /\ keyRateLimitedUntil = EmptyMap
    /\ now = 0

InitGhost ==
    /\ lastSel = NoSel
    /\ allResult = NoAll
    /\ promised = [k \in Secrets |-> 0]
    /\ latestPen = [i \in 0..(MaxKeys - 1) |-> 0]
    /\ selSeq = <<>>
    /\ penCall = NoPen

(***************************************************************************)
(* Calls of the manager's three methods by a direct caller, and the clock. *)
(***************************************************************************)
Max(a, b) == IF a >= b THEN a ELSE b

\* the last RunLen selections are kept
RunLen == MaxKeys + 2
Keep(s) == IF Len(s) > RunLen THEN Tail(s) ELSE s

\* a promise that has expired binds no later selection: it is forgotten
Unexpired(p, t) == [k \in DOMAIN p |-> IF p[k] <= t THEN 0 ELSE p[k]]

MgrSelect ==
    LET r == GetNextAvailableKey(keys, currentKeyIndex, keyRateLimitedUntil, now)
    IN /\ currentKeyIndex' = r.cursor
       /\ lastSel' = [called |-> TRUE, key |-> r.key, idx |-> r.idx,
                      cur |-> currentKeyIndex, t |-> now]
       /\ selSeq' = IF DOMAIN keyRateLimitedUntil = {}
                     THEN Keep(Append(selSeq, [idx |-> r.idx, cur |-> currentKeyIndex]))
                     ELSE <<>>
       /\ allResult' = NoAll
       /\ penCall' = NoPen
       /\ UNCHANGED <<env, keys, keyRateLimitedUntil, now, promised, latestPen, req>>

MgrPenalize ==
    \E key \in Secrets \cup {Stranger}, passed \in Durations \cup {NoDuration} :
      LET duration == EffectiveDuration(passed) IN
        /\ keyRateLimitedUntil' =
               MarkKeyAsRateLimited(keys, keyRateLimitedUntil, key, duration, now)
        /\ penCall' = [called |-> TRUE, key |-> key, duration |-> passed]
        /\ promised' = [k \in Secrets |->
                            IF k = key THEN Max(promised[k], now + duration)
                            ELSE promised[k]]
        /\ latestPen' = [i \in DOMAIN latestPen |->
                            IF /\ i + 1 \in 1..Len(keys)
                               /\ keys[i + 1] = key
                               /\ \A j \in 1..i : keys[j] # key
                            THEN now + duration ELSE latestPen[i]]
        /\ selSeq' = IF keyRateLimitedUntil' = keyRateLimitedUntil THEN selSeq ELSE <<>>
        /\ lastSel' = NoSel
        /\ allResult' = NoAll
        /\ UNCHANGED <<env, keys, currentKeyIndex, now, req>>

MgrAllLimited ==
    /\ allResult' = [called |-> TRUE,
                      value |-> AllKeysRateLimited(keys, keyRateLimitedUntil, now)]
    /\ lastSel' = NoSel
    /\ penCall' = NoPen
    /\ UNCHANGED <<env, keys, currentKeyIndex, keyRateLimitedUntil, now,
                   promised, latestPen, selSeq, req>>

Tick ==
    /\ now + TickStep <= MaxTime
    /\ now' = now + TickStep
    /\ lastSel' = NoSel
    /\ allResult' = NoAll
    /\ promised' = Unexpired(promised, now')
    /\ penCall' = NoPen
    /\ UNCHANGED <<env, keys, currentKeyIndex, keyRateLimitedUntil,
                   latestPen, selSeq, req>>

InitMgr == (\E e \in Envs : InitManager(e)) /\ InitGhost /\ req = <<>>

NextMgr == MgrSelect \/ MgrPenalize \/ MgrAllLimited \/ Tick

SpecMgr == InitMgr /\ [][NextMgr]_vars

(***************************************************************************)
(* The upstream event stream.  A body is a sequence of symbols: LF is the  *)
(* newline, the six characters "data: " are the two symbols of Prefix (a   *)
(* transport fragment may end between them), a JSON delta with the content *)
(* c is "{" c "}", and the sentinel [DONE] is the two symbols of DoneData. *)
(***************************************************************************)
LF == "LF"
Prefix == <<"da", "ta: ">>
DoneData == <<"[DO", "NE]">>
Letters == {"x", "y"}

ContentEvent(c) == [done |-> FALSE, content |-> c]
DoneEvent == [done |-> TRUE, content |-> <<>>]

\* chunk.split("\n")
RECURSIVE Split(_)
Split(s) ==
    LET cuts == {i \in 1..Len(s) : s[i] = LF}
    IN IF cuts = {} THEN <<s>>
       ELSE LET i == CHOOSE c \in cuts : \A d \in cuts : c <= d
            IN <<SubSeq(s, 1, i - 1)>> \o Split(SubSeq(s, i + 1, Len(s)))

\* line.startsWith("data: ")
StartsWith(line, pre) == Len(line) >= Len(pre) /\ SubSeq(line, 1, Len(pre)) = pre

\* line.slice(6)
Slice(line) == SubSeq(line, Len(Prefix) + 1, Len(line))

\* JSON.parse(data) returns, and parsed.choices?.[0]?.delta?.content does not throw
JsonParses(data) ==
    /\ Len(data) >= 2
    /\ data[1] = "{"
    /\ data[Len(data)] = "}"
    /\ \A i \in 2..(Len(data) - 1) : data[i] \in Letters

\* parsed.choices?.[0]?.delta?.content
DeltaContent(data) == SubSeq(data, 2, Len(data) - 1)

\* try { ... } catch (e) { console.error(...) }: a parse error goes no further
ParseErrorEscapesUncaught(data) == ~JsonParses(data)
ParseErrorEscapes(data) == FALSE

\* if (data === "[DONE]") { res.write(`data: [DONE]\n\n`); continue; }
DoneWrites(data) == <<DoneEvent>>

\* the body of the loop over the lines of one chunk, for one line
LineOutcome(line) ==
    IF ~StartsWith(line, Prefix) THEN [events |-> <<>>, thrown |-> FALSE]
    ELSE LET data == Slice(line)
         IN IF data = DoneData THEN [events |-> DoneWrites(data), thrown |-> FALSE]
            ELSE IF JsonParses(data)
            THEN [events |-> IF DeltaContent(data) # <<>>
                             THEN <<ContentEvent(DeltaContent(data))>> ELSE <<>>,
                  thrown |-> FALSE]
            ELSE [events |-> <<>>, thrown |-> ParseErrorEscapes(data)]

\* for (const line of lines) { ... }
RECURSIVE LinesOutcome(_)
LinesOutcome(lines) ==
    IF lines = <<>> THEN [events |-> <<>>, thrown |-> FALSE]
    ELSE LET first == LineOutcome(Head(lines))
         IN IF first.thrown THEN first
            ELSE LET rest == LinesOutcome(Tail(lines))
                 IN [events |-> first.events \o rest.events, thrown |-> rest.thrown]

ChunkOutcome(chunk) == LinesOutcome(Split(chunk))

(***************************************************************************)
(* The bodies the upstream sends: every line is followed by LF.            *)
(***************************************************************************)
DataLine(payload) == Prefix \o payload
ContentLine(c) == DataLine(<<"{">> \o c \o <<"}">>)
DoneLine == DataLine(DoneData)
\* a JSON text that is cut short by the upstream itself
BadLine == DataLine(<<"{", "x">>)
\* a delta without content
EmptyDelta == DataLine(<<"{", "}">>)
\* the empty line that separates two events
BlankLine == <<>>

LineKinds == {ContentLine(<<"x">>), ContentLine(<<"y">>), DoneLine, BadLine,
              EmptyDelta, BlankLine}

RECURSIVE Flatten(_)
Flatten(lines) ==
    IF lines = <<>> THEN <<>> ELSE Head(lines) \o <<LF>> \o Flatten(Tail(lines))

BodiesOf(kinds, n) ==
    {Flatten(ls) : ls \in UNION {[1..k -> kinds] : k \in 0..n}}

(***************************************************************************)
(* POST /api/chat.  req[r] holds the locals of the handler of request r    *)
(* and res, the response it has sent so far; the fields exhaustedAtStart, *)
(* markedAt and readFailed only record what happened, and so do apiIdx and *)
(* nextIdx (the pool indices of apiKey and nextKey), textRead (the error   *)
(* text was read) and pens (the table entries the request has written);    *)
(* closed tells that the caller has disconnected.                          *)
(***************************************************************************)
NoResponse == [status |-> 0, body |-> "none", rateLimited |-> FALSE,
               events |-> <<>>, ended |-> FALSE, ends |-> 0]

\* res.status(status).json({ error: body, rateLimited: flag })
Json(status, body, flag) == [status |-> status, body |-> body, rateLimited |-> flag,
                             events |-> <<>>, ended |-> TRUE, ends |-> 1]

IdleReq == [pc |-> "idle", valid |-> TRUE, apiKey |-> NoKey, apiIdx |-> -1,
            upStatus |-> 0, textRead |-> FALSE,
            calls |-> <<>>, retried |-> FALSE, nextKey |-> NoKey, nextIdx |-> -1,
            exhaustedAtStart |-> FALSE, markedAt |-> -1, pens |-> 0,
            body |-> <<>>, pos |-> 0, readFailed |-> FALSE, closed |-> FALSE,
            res |-> NoResponse]

Range(f) == {f[x] : x \in DOMAIN f}

\* the value of a second Date.now() of one synchronous run of the handler:
\* that of the first, or an expiry that the clock reaches within SyncDrift
SecondRead(tbl, t) == {t} \cup {e \in Range(tbl) : t < e /\ e <= t + SyncDrift}

\* every pool index has an unexpired entry
Exhausted(ks, tbl, t) ==
    \A i \in 0..(Len(ks) - 1) : i \in DOMAIN tbl /\ tbl[i] > t

\* if (response.status === 429)
IsRateLimitAnyError(status) == status >= 400
IsRateLimit(status) == status = 429

\* the entries of the table tbl2 that tbl does not hold with the same expiry
Written(tbl, tbl2) == {i \in DOMAIN tbl2 : i \notin DOMAIN tbl \/ tbl2[i] # tbl[i]}

\* the upstream statuses that are not a success
ErrorStatuses == {429, 500, 401}

Reply(r, response) ==
    req' = [req EXCEPT ![r].pc = "done", ![r].res = response]

\* line 917: chatRequestSchema.parse throws on a body the schema rejects
ParseThrowsNever(valid) == FALSE
ParseThrows(valid) == ~valid

\* lines 916-968: validation, the selection of a key, the upstream call
ChatStart(r) ==
    /\ req[r].pc = "idle"
    /\ \E valid \in BOOLEAN :
        IF ParseThrows(valid)
        THEN \* chatRequestSchema.parse throws; the outer catch answers
             /\ req' = [req EXCEPT ![r].pc = "done", ![r].valid = FALSE,
                                   ![r].res = Json(400, "exception message", FALSE)]
             /\ UNCHANGED <<currentKeyIndex, now>>
        ELSE LET sel == GetNextAvailableKey(keys, currentKeyIndex,
                                            keyRateLimitedUntil, now)
                 gone == Len(keys) > 0 /\ Exhausted(keys, keyRateLimitedUntil, now)
             IN /\ currentKeyIndex' = sel.cursor
                /\ IF sel.key = NoKey
                   THEN \E t2 \in SecondRead(keyRateLimitedUntil, now) :
                          /\ now' = t2
                          /\ req' = [req EXCEPT
                                 ![r].pc = "done",
                                 ![r].valid = valid,
                                 ![r].exhaustedAtStart = gone,
                                 ![r].res =
                                     IF AllKeysRateLimited(keys, keyRateLimitedUntil, t2)
                                     THEN Json(503, "busy", TRUE)
                                     ELSE Json(500, "not configured", FALSE)]
                   ELSE /\ now' = now
                        /\ req' = [req EXCEPT ![r].pc = "fetch",
                                              ![r].valid = valid,
                                              ![r].apiKey = sel.key,
                                              ![r].apiIdx = sel.idx,
                                              ![r].calls = Append(@, sel.key)]
    /\ UNCHANGED <<env, keys, keyRateLimitedUntil, ghostVars>>

\* lines 955-1005: the upstream call returns
FetchReturn(r, bodies) ==
    /\ req[r].pc = "fetch"
    /\ \/ \* fetch rejects: the outer catch answers, no header was sent
          Reply(r, Json(400, "exception message", FALSE))
       \/ \E st \in ErrorStatuses :
              req' = [req EXCEPT ![r].pc = "text", ![r].upStatus = st]
       \/ \* response.ok, and response.body is null
          req' = [req EXCEPT ![r].pc = "done", ![r].upStatus = 200,
                             ![r].res = Json(500, "unreadable", FALSE)]
       \/ \E b \in bodies :
              req' = [req EXCEPT ![r].pc = "read", ![r].upStatus = 200,
                                 ![r].body = b,
                                 ![r].res = [NoResponse EXCEPT
                                                !.status = 200,
                                                !.body = "event-stream"]]
    /\ UNCHANGED <<mgrVars, now, ghostVars>>

\* lines 970-993: the error text has been read
ErrorText(r) ==
    /\ req[r].pc = "text"
    /\ \/ \* response.text() rejects: the outer catch answers
          /\ Reply(r, Json(400, "exception message", FALSE))
          /\ UNCHANGED <<currentKeyIndex, keyRateLimitedUntil, now>>
       \/ /\ IsRateLimit(req[r].upStatus)
          /\ LET tbl == MarkKeyAsRateLimited(keys, keyRateLimitedUntil,
                                             req[r].apiKey, DefaultDuration, now)
             IN /\ keyRateLimitedUntil' = tbl
                /\ \E t2 \in SecondRead(tbl, now) :
                     LET nextKey == GetNextAvailableKey(keys, currentKeyIndex, tbl, t2)
                     IN /\ now' = t2
                        /\ currentKeyIndex' = nextKey.cursor
                        /\ req' = [req EXCEPT
                               ![r].pc = "done",
                               ![r].textRead = TRUE,
                               ![r].retried = TRUE,
                               ![r].nextKey = nextKey.key,
                               ![r].nextIdx = nextKey.idx,
                               ![r].markedAt = now,
                               ![r].pens = @ + Cardinality(Written(keyRateLimitedUntil, tbl)),
                               ![r].res =
                                   IF nextKey.key = NoKey
                                   THEN Json(503, "busy", TRUE)
                                   ELSE Json(req[r].upStatus, "upstream failed", FALSE)]
       \/ /\ ~IsRateLimit(req[r].upStatus)
          /\ req' = [req EXCEPT ![r].pc = "done", ![r].textRead = TRUE,
                                ![r].res = Json(req[r].upStatus, "upstream failed",
                                                FALSE)]
          /\ UNCHANGED <<currentKeyIndex, keyRateLimitedUntil, now>>
    /\ UNCHANGED <<env, keys, ghostVars>>

\* lines 1037-1041: catch (error) { ... } finally { res.end() }: the number
\* of res.end() calls when the loop is left, by break or by an exception
EndCallsOnlyAfterBreak(failed) == IF failed THEN 0 ELSE 1
EndCalls(failed) == 1

\* lines 1007-1041: one reader.read() of the loop
Read(r) ==
    /\ req[r].pc = "read"
    /\ \/ \* reader.read() rejects: catch, then finally res.end()
          req' = [req EXCEPT ![r].pc = "done", ![r].readFailed = TRUE,
                             ![r].res.ended = EndCalls(TRUE) > 0,
                             ![r].res.ends = @ + EndCalls(TRUE)]
       \/ \* done: break, then finally res.end()
          /\ req[r].pos = Len(req[r].body)
          /\ req' = [req EXCEPT ![r].pc = "done",
                                ![r].res.ended = EndCalls(FALSE) > 0,
                                ![r].res.ends = @ + EndCalls(FALSE)]
       \/ \E n \in 1..(Len(req[r].body) - req[r].pos) :
              LET chunk == SubSeq(req[r].body, req[r].pos + 1, req[r].pos + n)
                  out == ChunkOutcome(chunk)
              IN req' = [req EXCEPT
                     ![r].pos = @ + n,
                     ![r].res.events = @ \o out.events,
                     ![r].pc = IF out.thrown THEN "done" ELSE "read",
                     ![r].res.ended = out.thrown /\ EndCalls(TRUE) > 0,
                     ![r].res.ends = @ + (IF out.thrown THEN EndCalls(TRUE) ELSE 0)]
    /\ UNCHANGED <<mgrVars, now, ghostVars>>

\* the caller disconnects while the response is streamed; the handler
\* registers no listener for it (no req.on("close"), no AbortController)
Disconnect(r) ==
    /\ req[r].pc = "read"
    /\ ~req[r].closed
    /\ req' = [req EXCEPT ![r].closed = TRUE]
    /\ UNCHANGED <<mgrVars, now, ghostVars>>

\* the response is complete; the next request arrives
NextRequest(r) ==
    /\ req[r].pc = "done"
    /\ req' = [req EXCEPT ![r] = IdleReq]
    /\ UNCHANGED <<mgrVars, now, ghostVars>>

\* time passes between two turns of the event loop: by TickStep, or up to
\* SyncDrift before an expiry of the table
ClockTargets ==
    {t \in {now + TickStep} \cup {e - SyncDrift : e \in Range(keyRateLimitedUntil)} :
        now < t /\ t <= MaxTime}

ChatTick ==
    /\ \E t \in ClockTargets : now' = t
    /\ UNCHANGED <<mgrVars, ghostVars, req>>

\* the environments of the chat specifications: no single key, slot 1 set
\* to "A" whenever a slot is set, and no unset slot before a set one (the
\* handler sees the pool only, and each pool is built from one environment)
ChatEnvs ==
    {e \in Envs : /\ e.single = Unset
                  /\ e.numbered[1] \in {Unset, "A"}
                  /\ \A i \in 1..(NumSlots - 1) :
                         e.numbered[i] = Unset => e.numbered[i + 1] = Unset}

\* two chat requests are handled concurrently
Reqs == {1, 2}

\* the bodies of the specification of concurrent requests
SmallBodies == {Flatten(<<BlankLine>>)}

Init ==
    /\ \E e \in ChatEnvs : InitManager(e)
    /\ InitGhost
    /\ req = [r \in Reqs |-> IdleReq]

Next ==
    \/ \E r \in Reqs : ChatStart(r)
    \/ \E r \in Reqs : FetchReturn(r, SmallBodies)
    \/ \E r \in Reqs : ErrorText(r)
    \/ \E r \in Reqs : Read(r)
    \/ \E r \in Reqs : NextRequest(r)
    \/ ChatTick

Spec == Init /\ [][Next]_vars

(***************************************************************************)
(* One request at a time, a pool of one key, and every body of at most     *)
(* MaxLines lines, cut into fragments in every way.  The clock stands      *)
(* still: the read loop does not read it.                                  *)
(***************************************************************************)
StreamBodies == BodiesOf(LineKinds, MaxLines)

StreamEnvs == {e \in ChatEnvs : e.numbered[1] = "A" /\
                                \A i \in 2..NumSlots : e.numbered[i] = Unset}

InitStream ==
    /\ \E e \in StreamEnvs : InitManager(e)
    /\ InitGhost
    /\ req = [r \in {1} |-> IdleReq]

NextStream ==
    \/ ChatStart(1)
    \/ FetchReturn(1, StreamBodies)
    \/ ErrorText(1)
    \/ Read(1)
    \/ NextRequest(1)

SpecStream == InitStream /\ [][NextStream]_vars

(***************************************************************************)
(* The same request with a caller that may disconnect while the response   *)
(* is streamed.                                                            *)
(***************************************************************************)
NextClose == NextStream \/ Disconnect(1)

SpecClose == InitStream /\ [][NextClose]_vars

(***************************************************************************)
(* The request of SpecStream with an upstream body that goes on: each      *)
(* reader.read() the loop waits for resolves or rejects (weak fairness of  *)
(* Read).                                                                  *)
(***************************************************************************)
SpecStreamLive == InitStream /\ [][NextStream]_vars /\ WF_vars(Read(1))

(***************************************************************************)
(* The same calls for the claims about what happens eventually.  Real time *)
(* has no end and the model's clock stops at MaxTime, so a penalty is      *)
(* recorded only when it expires within the model's time: every expiry is  *)
(* reached.  The clock goes on and the manager goes on being asked for a   *)
(* key (weak fairness of Tick and of MgrSelect).  The pools are those of   *)
(* ChatEnvs: one environment for each pool, up to the names of the keys.   *)
(***************************************************************************)
MgrPenalizeInTime ==
    /\ MgrPenalize
    /\ \A i \in DOMAIN keyRateLimitedUntil' : keyRateLimitedUntil'[i] <= MaxTime

NextMgrLive == MgrSelect \/ MgrPenalizeInTime \/ MgrAllLimited \/ Tick

InitMgrLive == (\E e \in ChatEnvs : InitManager(e)) /\ InitGhost /\ req = <<>>

SpecMgrLive ==
    InitMgrLive /\ [][NextMgrLive]_vars /\ WF_vars(Tick) /\ WF_vars(MgrSelect)

(***************************************************************************)
(* Claims about the key manager, checked under SpecMgr.                    *)
(***************************************************************************)

\* C2 as stated: after penalize(k, d) at time t, no getNextAvailableKey call
\* made before t + d returns the secret k, whatever the pool holds and
\* whatever penalties follow.
C2_NeverReturnedBeforePromise ==
    (lastSel.called /\ lastSel.key \in Secrets) => lastSel.t >= promised[lastSel.key]

\* C2 amended: a getNextAvailableKey call never returns a pool index before
\* the expiry that the latest penalize call hitting that index (the first
\* index holding the penalized secret) recorded for it.
C2_IndexNotReturnedBeforeLatestExpiry ==
    (lastSel.called /\ lastSel.idx >= 0) => lastSel.t >= latestPen[lastSel.idx]

\* the scan started at a penalized index, skipped it and returned another
C2_Witness ==
    /\ lastSel.called
    /\ lastSel.idx >= 0
    /\ lastSel.idx # lastSel.cur
    /\ latestPen[lastSel.cur] > lastSel.t

\* C3: with no penalty recorded, consecutive getNextAvailableKey calls
\* return the pool indices in cyclic order from the cursor, each index once
\* in N calls, and call N + 1 returns the credential of call 1.
C3_RoundRobin ==
    LET N == Len(keys)
    IN \A s \in 1..Len(selSeq) : \A j \in 0..(Len(selSeq) - s) :
          N >= 1 =>
              /\ selSeq[s + j].idx = (selSeq[s].cur + j) % N
              /\ (0 < j /\ j < N) => selSeq[s + j].idx # selSeq[s].idx
              /\ j = N => keys[selSeq[s + j].idx + 1] = keys[selSeq[s].idx + 1]

\* N + 1 calls were made on a pool of two keys from a cursor that is not 0
C3_Witness ==
    /\ Len(keys) = 2
    /\ Len(selSeq) >= 4
    /\ selSeq[2].cur = 1
    /\ selSeq[4].idx = selSeq[2].idx

\* C9: allKeysRateLimited returns true exactly when every pool index has an
\* entry whose expiry is strictly greater than the current time.
C9_AllLimitedIff ==
    allResult.called =>
        (allResult.value <=>
            \A i \in 0..(Len(keys) - 1) :
                i \in DOMAIN keyRateLimitedUntil /\ keyRateLimitedUntil[i] > now)

\* the call returned false because one expiry equals the current time
C9_Witness ==
    /\ allResult.called
    /\ ~allResult.value
    /\ Len(keys) = 2
    /\ DOMAIN keyRateLimitedUntil = {0, 1}
    /\ \E i \in {0, 1} : keyRateLimitedUntil[i] = now /\ keyRateLimitedUntil[1 - i] > now

(***************************************************************************)
(* Claims about the retry and the refusals of POST /api/chat, checked      *)
(* under Spec.                                                             *)
(***************************************************************************)

\* C1: when the upstream answers 429 and the pool supplies another, different
\* credential, a second upstream call is made with that credential.
C1_RetriesWithSecondKey ==
    \A r \in DOMAIN req :
        (/\ req[r].pc = "done"
         /\ req[r].upStatus = 429
         /\ req[r].retried
         /\ req[r].nextKey # NoKey
         /\ req[r].nextKey # req[r].apiKey)
        => /\ Len(req[r].calls) = 2
           /\ req[r].calls[2] = req[r].nextKey

\* C4: with a pool of one credential, a 429 of the upstream is answered
\* with 503 and rateLimited: true, the credential is penalized and the
\* request made one upstream call only.
C4_SingleKeyExhausted ==
    \A r \in DOMAIN req :
        (/\ req[r].pc = "done"
         /\ Len(keys) = 1
         /\ req[r].upStatus = 429
         /\ req[r].retried)
        => /\ req[r].res.status = 503
           /\ req[r].res.rateLimited
           /\ req[r].res.ended
           /\ Len(req[r].calls) = 1
           /\ 0 \in DOMAIN keyRateLimitedUntil
           /\ keyRateLimitedUntil[0] >= req[r].markedAt + DefaultDuration

\* a request on a pool of one key has gone through the 429 branch
C4_Witness ==
    \E r \in DOMAIN req :
        /\ req[r].pc = "done"
        /\ Len(keys) = 1
        /\ req[r].upStatus = 429
        /\ req[r].retried
        /\ req[r].calls = <<"A">>

\* C7: with an empty pool a valid chat request is answered with 500 and no
\* rateLimited flag, and no upstream call is made.
C7_EmptyPoolIsMisconfiguration ==
    \A r \in DOMAIN req :
        (req[r].pc = "done" /\ req[r].valid /\ Len(keys) = 0)
        => /\ req[r].res.status = 500
           /\ ~req[r].res.rateLimited
           /\ req[r].calls = <<>>

\* C8: when every credential of a non-empty pool is penalized at the start
\* of a chat request, the request is answered with 503 and rateLimited:
\* true, and no upstream call is made.
C8_ExhaustedPoolIs503 ==
    \A r \in DOMAIN req :
        (req[r].pc = "done" /\ req[r].exhaustedAtStart)
        => /\ req[r].res.status = 503
           /\ req[r].res.rateLimited
           /\ req[r].calls = <<>>

(***************************************************************************)
(* Claims about the relay of the event stream, checked under SpecStream.   *)
(***************************************************************************)
RECURSIVE ConcatContents(_)
ConcatContents(events) ==
    IF events = <<>> THEN <<>>
    ELSE (IF Head(events).done THEN <<>> ELSE Head(events).content)
         \o ConcatContents(Tail(events))

\* the events of the body as the upstream wrote it, line by line
SentEvents(body) == LinesOutcome(Split(body)).events

\* the response is an event stream that was read to the end of the body
StreamedToEnd(r) ==
    /\ req[r].pc = "done"
    /\ req[r].res.body = "event-stream"
    /\ ~req[r].readFailed
    /\ req[r].pos = Len(req[r].body)

\* C5: however the body is cut into fragments, the contents written to the
\* caller, concatenated, are the delta contents the upstream sent,
\* concatenated.
C5_ContentPreserved ==
    \A r \in DOMAIN req :
        StreamedToEnd(r) =>
            ConcatContents(req[r].res.events) = ConcatContents(SentEvents(req[r].body))

DoneCount(events) == Cardinality({i \in 1..Len(events) : events[i].done})

\* C6, for an upstream body that holds one [DONE] line, its last, and is
\* read to its end: the response holds exactly one [DONE] event, its last.
C6_OneDoneLast ==
    \A r \in DOMAIN req :
        (/\ StreamedToEnd(r)
         /\ DoneCount(SentEvents(req[r].body)) = 1
         /\ SentEvents(req[r].body)[Len(SentEvents(req[r].body))].done)
        => /\ req[r].res.ended
           /\ DoneCount(req[r].res.events) = 1
           /\ req[r].res.events[Len(req[r].res.events)].done

\* the lines of a chunk, as the handler sees them, that hold a whole JSON
\* delta with content
WholeContentLines == {ContentLine(<<l>>) : l \in Letters}

RECURSIVE ExpectedContents(_)
ExpectedContents(pieces) ==
    IF pieces = <<>> THEN <<>>
    ELSE (IF Head(pieces) \in WholeContentLines
          THEN <<Head(pieces)[Len(Prefix) + 2]>> ELSE <<>>)
         \o ExpectedContents(Tail(pieces))

\* C10: of the lines of a chunk, each valid delta with content adds one
\* content event, an unparsable one adds none, and the handler goes on
\* reading: the response is not ended and its status stays 200.
C10_BadFragmentSkipped ==
    [][\A r \in DOMAIN req :
          (req[r].pc = "read" /\ req'[r].pos > req[r].pos) =>
              LET chunk == SubSeq(req[r].body, req[r].pos + 1, req'[r].pos)
                  added == SubSeq(req'[r].res.events, Len(req[r].res.events) + 1,
                                  Len(req'[r].res.events))
              IN /\ SubSeq(req'[r].res.events, 1, Len(req[r].res.events))
                        = req[r].res.events
                 /\ ConcatContents(added) = ExpectedContents(Split(chunk))
                 /\ Cardinality({i \in 1..Len(added) : ~added[i].done})
                        = Len(ExpectedContents(Split(chunk)))
                 /\ req'[r].pc = "read"
                 /\ ~req'[r].res.ended
                 /\ req'[r].res.status = 200]_vars

\* a body of one unparsable line followed by two valid ones was relayed as
\* two content events
C10_Witness ==
    \E r \in DOMAIN req :
        /\ StreamedToEnd(r)
        /\ req[r].body = Flatten(<<BadLine, ContentLine(<<"x">>), ContentLine(<<"y">>)>>)
        /\ req[r].res.events = <<ContentEvent(<<"x">>), ContentEvent(<<"y">>)>>
        /\ req[r].res.status = 200
        /\ req[r].res.ended

(***************************************************************************)
(* Claims about the error branch and the validation of the request.        *)
(***************************************************************************)
\* C11: when the upstream answers a non-success status other than 429 and
\* the handler has read the error text, the request is answered with that
\* same status and the generic error body, it has made exactly one upstream
\* call, and the step that answers leaves the rate-limit table as it was:
\* no key is penalized
C11_OtherStatusRelayed ==
    [][\A r \in DOMAIN req :
         (req[r].pc = "text" /\ req[r].upStatus # 429 /\ req'[r].textRead) =>
             /\ req'[r].res.status = req[r].upStatus
             /\ req'[r].res.body = "upstream failed"
             /\ ~req'[r].res.rateLimited
             /\ req'[r].res.ended
             /\ Len(req'[r].calls) = 1
             /\ req'[r].pens = 0
             /\ ~req'[r].retried
             /\ keyRateLimitedUntil' = keyRateLimitedUntil
             /\ currentKeyIndex' = currentKeyIndex]_vars

\* a request answered 401 by the upstream has been answered 401, while the
\* other request is still waiting for the upstream
C11_Witness ==
    \E r, o \in DOMAIN req :
        /\ r # o
        /\ req[r].pc = "done" /\ req[r].upStatus = 401 /\ req[r].textRead
        /\ req[r].res.status = 401
        /\ req[o].pc = "fetch"

\* C12: a request whose body fails validation is answered 400; the step
\* leaves the rotation cursor and the rate-limit table as they were, no key
\* is selected and no upstream call is made
C12_InvalidBodyTouchesNothing ==
    [][\A r \in DOMAIN req :
         (req[r].pc = "idle" /\ req'[r].pc # "idle" /\ ~req'[r].valid) =>
             /\ req'[r].pc = "done"
             /\ req'[r].res.status = 400
             /\ req'[r].res.ended
             /\ currentKeyIndex' = currentKeyIndex
             /\ keyRateLimitedUntil' = keyRateLimitedUntil
             /\ req'[r].apiKey = NoKey /\ req'[r].apiIdx = -1
             /\ req'[r].calls = <<>>]_vars

\* an invalid request has been answered while the cursor is not at 0 and a
\* penalty is recorded: there was something to change
C12_Witness ==
    \E r \in DOMAIN req :
        /\ req[r].pc = "done" /\ ~req[r].valid
        /\ req[r].res.status = 400
        /\ currentKeyIndex = 1
        /\ DOMAIN keyRateLimitedUntil # {}

(***************************************************************************)
(* Claims about getNextAvailableKey and markKeyAsRateLimited, stated on    *)
(* the call that has just returned.                                        *)
(***************************************************************************)
\* the pool index i has no expiry recorded in tbl, or one that t has reached
UsableAt(i, tbl, t) == i \notin DOMAIN tbl \/ tbl[i] <= t

\* the pool indices that hold the secret key
Holders(ks, key) == {i \in 0..(Len(ks) - 1) : ks[i + 1] = key}

\* the duration a penalize call asks for
Asked(call) == IF call.duration = NoDuration THEN 60000 ELSE call.duration

\* C13: a selection that returns a key has scanned the indices cur, cur+1,
\* ... cyclically, at most N of them, and returned the first one that has no
\* expiry or whose expiry the clock has reached; the cursor is then one past
\* that index, modulo N
C13_FirstUsableFromCursor ==
    (lastSel.called /\ lastSel.idx # -1) =>
        LET N == Len(keys) IN
        \E j \in 0..(N - 1) :
            /\ lastSel.idx = (lastSel.cur + j) % N
            /\ UsableAt(lastSel.idx, keyRateLimitedUntil, now)
            /\ \A h \in 0..(j - 1) :
                   ~UsableAt((lastSel.cur + h) % N, keyRateLimitedUntil, now)
            /\ lastSel.key = keys[lastSel.idx + 1]
            /\ currentKeyIndex = (lastSel.idx + 1) % N

\* the scenario of the claim: pool [A, B], A penalized at 0 for 60 s, a
\* selection at 30 s from cursor 0 returns B and leaves the cursor at 0
C13_Witness ==
    /\ keys = <<"A", "B">>
    /\ DOMAIN keyRateLimitedUntil = {0} /\ keyRateLimitedUntil[0] = 60000
    /\ now = 30000
    /\ lastSel.called /\ lastSel.cur = 0
    /\ lastSel.key = "B" /\ lastSel.idx = 1
    /\ currentKeyIndex = 0

\* C17: a penalize call that finds an expiry later than now + duration on
\* the index it hits replaces it by now + duration: the last write wins
C17_ShorterPenaltyReplaces ==
    [][penCall'.called =>
         \A f \in Holders(keys, penCall'.key) :
             (/\ \A g \in Holders(keys, penCall'.key) : f <= g
              /\ f \in DOMAIN keyRateLimitedUntil
              /\ now + Asked(penCall') < keyRateLimitedUntil[f])
             => /\ f \in DOMAIN keyRateLimitedUntil'
                /\ keyRateLimitedUntil'[f] = now + Asked(penCall')]_vars

\* a penalize call has just left an expiry that is earlier than the one an
\* earlier call of the same key had asked for
C17_Witness ==
    /\ penCall.called
    /\ penCall.key \in Secrets
    /\ Holders(keys, penCall.key) # {}
    /\ \E f \in Holders(keys, penCall.key) :
           /\ f \in DOMAIN keyRateLimitedUntil
           /\ keyRateLimitedUntil[f] = now + Asked(penCall)
           /\ keyRateLimitedUntil[f] < promised[penCall.key]

\* C18: penalize(key, duration) on a pool that holds the key sets the expiry
\* of the first index holding it to now + duration, 60 s when no duration is
\* passed, and leaves the cursor, the pool and the expiry of every other
\* index as they were
C18_PenalizeFrame ==
    [][(penCall'.called /\ Holders(keys, penCall'.key) # {}) =>
         LET hit == Holders(keys, penCall'.key)
             f == CHOOSE i \in hit : \A g \in hit : i <= g
         IN /\ f \in DOMAIN keyRateLimitedUntil'
            /\ keyRateLimitedUntil'[f] = now + Asked(penCall')
            /\ DOMAIN keyRateLimitedUntil' = DOMAIN keyRateLimitedUntil \cup {f}
            /\ \A i \in DOMAIN keyRateLimitedUntil \ {f} :
                   keyRateLimitedUntil'[i] = keyRateLimitedUntil[i]
            /\ currentKeyIndex' = currentKeyIndex
            /\ keys' = keys
            /\ now' = now]_vars

\* penalize(A) without a duration has just returned on the pool [A, A]:
\* index 0 expires 60 s from now and index 1 has no expiry
C18_Witness ==
    /\ penCall.called /\ penCall.key = "A" /\ penCall.duration = NoDuration
    /\ keys = <<"A", "A">>
    /\ currentKeyIndex = 1
    /\ DOMAIN keyRateLimitedUntil = {0}
    /\ keyRateLimitedUntil[0] = now + 60000

\* C19: penalize with a key that no pool index holds, which is every key
\* when the pool is empty, leaves the rate-limit table and the cursor as
\* they were
C19_UnknownKeyIsNoOp ==
    [][(penCall'.called /\ Holders(keys, penCall'.key) = {}) =>
         /\ keyRateLimitedUntil' = keyRateLimitedUntil
         /\ currentKeyIndex' = currentKeyIndex
         /\ keys' = keys]_vars

\* penalize of a key that is in no pool has just returned, with a penalty
\* recorded and the cursor at 1
C19_Witness ==
    /\ penCall.called /\ penCall.key = Stranger
    /\ Len(keys) = 2
    /\ currentKeyIndex = 1
    /\ DOMAIN keyRateLimitedUntil # {}

\* penalize has just returned on the empty pool
C19_WitnessEmptyPool ==
    /\ penCall.called /\ keys = <<>>
    /\ keyRateLimitedUntil = EmptyMap

\* C20: a selection returns none exactly when the pool is empty or every
\* index has an expiry strictly later than the clock; it then leaves the
\* cursor where it was; the call returns at the instant it was made
C20_NoneIffNothingUsable ==
    lastSel.called =>
        /\ (lastSel.key = NoKey) <=>
               (\/ Len(keys) = 0
                \/ \A i \in 0..(Len(keys) - 1) :
                       ~UsableAt(i, keyRateLimitedUntil, now))
        /\ (lastSel.key = NoKey) <=> (lastSel.idx = -1)
        /\ lastSel.key = NoKey => currentKeyIndex = lastSel.cur
        /\ lastSel.t = now

\* a selection has returned none on a pool of two penalized keys, from the
\* cursor 1
C20_Witness ==
    /\ lastSel.called /\ lastSel.key = NoKey
    /\ Len(keys) = 2
    /\ lastSel.cur = 1 /\ currentKeyIndex = 1

(***************************************************************************)
(* Claims about the chat requests that share the manager.                  *)
(***************************************************************************)
\* a selection made at t on the table tbl that returned the index idx (-1
\* for none) returned a usable index, or none when no index was usable
SoundSelection(idx, tbl, t) ==
    /\ idx # -1 => (idx \in 0..(Len(keys) - 1) /\ UsableAt(idx, tbl, t))
    /\ idx = -1 => \A i \in 0..(Len(keys) - 1) : ~UsableAt(i, tbl, t)

\* C15: with chat requests interleaved in every way, every selection and
\* every penalty takes effect in one step: the selection at the start of a
\* request and the one after a 429 return an index that has no unexpired
\* penalty in the table as it is at that instant, and return none only when
\* no index is usable; the penalty of a 429 is in the table, whole, before
\* the selection that follows it
C15_SelectionsAreAtomic ==
    [][\A r \in DOMAIN req :
         /\ (req[r].pc = "idle" /\ req'[r].pc # "idle" /\ req'[r].valid) =>
                /\ SoundSelection(req'[r].apiIdx, keyRateLimitedUntil, now)
                /\ req'[r].apiIdx # -1 =>
                       /\ req'[r].apiKey = keys[req'[r].apiIdx + 1]
                       /\ currentKeyIndex' = (req'[r].apiIdx + 1) % Len(keys)
                /\ req'[r].apiIdx = -1 => currentKeyIndex' = currentKeyIndex
                /\ keyRateLimitedUntil' = keyRateLimitedUntil
         /\ (req[r].pc = "text" /\ req'[r].retried) =>
                LET hit == Holders(keys, req[r].apiKey)
                    f == CHOOSE i \in hit : \A g \in hit : i <= g
                IN /\ hit # {}
                   /\ keyRateLimitedUntil' =
                          [i \in DOMAIN keyRateLimitedUntil \cup {f} |->
                               IF i = f THEN now + 60000
                               ELSE keyRateLimitedUntil[i]]
                   /\ SoundSelection(req'[r].nextIdx, keyRateLimitedUntil', now')
                   /\ req'[r].nextIdx # -1 =>
                          currentKeyIndex' = (req'[r].nextIdx + 1) % Len(keys)
                   /\ req'[r].nextIdx = -1 => currentKeyIndex' = currentKeyIndex]_vars

\* two requests have been interleaved: both were started on the pool [A, B]
\* before either was answered, one has been answered 429 and its selection
\* returned none because the other one's key had been penalized meanwhile
C15_Witness ==
    \E r, o \in DOMAIN req :
        /\ r # o
        /\ Len(keys) = 2 /\ keys[1] # keys[2]
        /\ req[r].retried /\ req[r].nextIdx = -1
        /\ req[o].retried
        /\ req[r].apiIdx # req[o].apiIdx
        /\ req[r].apiIdx # -1 /\ req[o].apiIdx # -1

\* C16: no chat request makes more than two upstream calls, and none writes
\* more than one entry of the rate-limit table
C16_CallsAndPenaltiesBounded ==
    \A r \in DOMAIN req :
        /\ Len(req[r].calls) <= 2
        /\ req[r].pens <= 1

\* a request on the pool [A, A] has been answered 429 by the upstream: it
\* has made its call and written its penalty
C16_Witness ==
    \E r \in DOMAIN req :
        /\ keys = <<"A", "A">>
        /\ req[r].pc = "done" /\ req[r].retried
        /\ Len(req[r].calls) = 1
        /\ req[r].pens = 1

(***************************************************************************)
(* Claims about what happens eventually, checked under SpecMgrLive.        *)
(***************************************************************************)
\* the pool index i holds a key whose penalty has not expired
Penalized(i) ==
    /\ i < Len(keys)
    /\ i \in DOMAIN keyRateLimitedUntil
    /\ keyRateLimitedUntil[i] > now

\* the selection that has just returned gave the key of the index i
Returned(i) == lastSel.called /\ lastSel.idx = i /\ lastSel.key = keys[i + 1]

\* C21: no penalty is for ever: an index that is penalized is later returned
\* by a selection, with nothing done to it but the clock passing its expiry,
\* and from every state of a non-empty pool a later selection returns a key
C21_PenalizedKeyComesBack ==
    /\ \A i \in 0..(MaxKeys - 1) : Penalized(i) ~> Returned(i)
    /\ (Len(keys) > 0) ~> (lastSel.called /\ lastSel.key # NoKey)

\* a selection has just returned the key of an index whose recorded expiry
\* the clock has passed; the entry is still in the table
C21_Witness ==
    \E i \in DOMAIN keyRateLimitedUntil :
        /\ i < Len(keys)
        /\ keyRateLimitedUntil[i] > 0
        /\ keyRateLimitedUntil[i] <= now
        /\ Returned(i)

(***************************************************************************)
(* Claims about the order of the events and about a caller that leaves.    *)
(***************************************************************************)
\* the contents of the content events of a sequence of events, one by one
ContentsOf(events) ==
    LET sel == SelectSeq(events, LAMBDA e : ~e.done)
    IN [i \in 1..Len(sel) |-> sel[i].content]

\* C22: the content events of a response that was streamed to the end are,
\* one by one and in the same order, the contents of the deltas with
\* content that the upstream sent: none is merged, swapped or missing
C22_OneEventPerDeltaInOrder ==
    \A r \in DOMAIN req :
        StreamedToEnd(r) =>
            ContentsOf(req[r].res.events) = ContentsOf(SentEvents(req[r].body))

\* C23: once the caller has disconnected from a response that is being
\* streamed, the handler reads the upstream body no more: the request takes
\* no further step of the read loop
C23_NoReadAfterDisconnect ==
    [][\A r \in DOMAIN req :
         (req[r].closed /\ req[r].pc = "read") =>
             (req'[r].pc = "read" /\ req'[r].pos = req[r].pos)]_vars

(***************************************************************************)
(* Claims about what a chat request changes in the manager.                *)
(***************************************************************************)
\* C24: a step of the chat requests changes the rate-limit table only when
\* it is the step of a request that handles a 429, and then in one entry
\* only, of an index that holds the key the request used; a request that
\* ends with another upstream status, or with none, has written no entry
C24_TableChangedOnlyOn429 ==
    [][/\ keyRateLimitedUntil' # keyRateLimitedUntil =>
              \E r \in DOMAIN req :
                  /\ req[r].pc = "text" /\ req[r].upStatus = 429
                  /\ req'[r].pc = "done"
                  /\ \E f \in Holders(keys, req[r].apiKey) :
                         /\ DOMAIN keyRateLimitedUntil'
                                = DOMAIN keyRateLimitedUntil \cup {f}
                         /\ \A i \in DOMAIN keyRateLimitedUntil \ {f} :
                                keyRateLimitedUntil'[i] = keyRateLimitedUntil[i]
       /\ \A r \in DOMAIN req :
              (req'[r].pc = "done" /\ req'[r].upStatus # 429) => req'[r].pens = 0
      ]_vars

\* one request has been answered after a 429 and has written its entry, the
\* other one has streamed a response and has written none
C24_Witness ==
    \E r, o \in DOMAIN req :
        /\ req[r].pc = "done" /\ req[r].upStatus = 429 /\ req[r].pens = 1
        /\ req[o].pc = "done" /\ req[o].upStatus = 200 /\ req[o].pens = 0
        /\ req[o].res.body = "event-stream"
        /\ Cardinality(DOMAIN keyRateLimitedUntil) = 1

\* C25: the keys of the rate-limit table are indices of the pool; an entry
\* appears only in the step of a request that handles a 429, and no step
\* removes an entry: an expired entry stays in the table
C25_EntriesValidAndKept ==
    [][/\ DOMAIN keyRateLimitedUntil' \subseteq 0..(Len(keys') - 1)
       /\ DOMAIN keyRateLimitedUntil \subseteq DOMAIN keyRateLimitedUntil'
       /\ \A i \in DOMAIN keyRateLimitedUntil' \ DOMAIN keyRateLimitedUntil :
              \E r \in DOMAIN req :
                  /\ req[r].pc = "text" /\ req[r].upStatus = 429
                  /\ req'[r].retried
                  /\ keyRateLimitedUntil'[i] = now + 60000]_vars

\* both indices of a pool of two have an entry, and one of the entries has
\* expired and is still there
C25_Witness ==
    /\ Len(keys) = 2
    /\ DOMAIN keyRateLimitedUntil = {0, 1}
    /\ \E i \in {0, 1} : keyRateLimitedUntil[i] <= now
    /\ \E i \in {0, 1} : keyRateLimitedUntil[i] > now

(***************************************************************************)
(* Claims about the pool.                                                  *)
(***************************************************************************)
\* the numbered slots of the environment e that are set
SetSlots(e) == {i \in 1..5 : e.numbered[i] # Unset}

\* the pool the environment e stands for: the set slots in slot order, or
\* the single key when no slot is set and the single key is
PoolOf(e) ==
    IF SetSlots(e) # {}
    THEN [k \in 1..Cardinality(SetSlots(e)) |->
             e.numbered[CHOOSE i \in SetSlots(e) :
                            Cardinality({j \in SetSlots(e) : j < i}) = k - 1]]
    ELSE IF e.single # Unset THEN <<e.single>> ELSE <<>>

\* C26: in every state, whatever calls of the manager were made, the pool
\* is the one built from the environment: the set slots among 1..5 in slot
\* order, and the single key only when no slot is set
C26_PoolBuiltOnceAndFixed ==
    /\ keys = PoolOf(env)
    /\ Len(keys) <= 5

\* the single key is set and is not in the pool, slot 1 is not set and slot
\* 2 is; a penalty has been recorded and a selection has just returned
C26_Witness ==
    /\ env.single = "B"
    /\ env.numbered[1] = Unset /\ env.numbered[2] = "A"
    /\ keys = <<"A">>
    /\ DOMAIN keyRateLimitedUntil # {}
    /\ lastSel.called

\* the pool is the single key: no numbered slot is set
C26_WitnessFallback ==
    /\ SetSlots(env) = {}
    /\ keys = <<"B">>
    /\ lastSel.called /\ lastSel.key = "B"

(***************************************************************************)
(* Claims about the answers of the chat endpoint.                          *)
(***************************************************************************)
\* C27: every key a request has obtained from getNextAvailableKey, at its
\* start or after a 429, is the key of one of its upstream calls: no key is
\* taken, the cursor moved past it, and the key then dropped
C27_EveryKeyObtainedIsUsed ==
    \A r \in DOMAIN req :
        req[r].pc = "done" =>
            /\ req[r].apiKey # NoKey =>
                   (Len(req[r].calls) >= 1 /\ req[r].calls[1] = req[r].apiKey)
            /\ req[r].nextIdx # -1 =>
                   (Len(req[r].calls) >= 2 /\ req[r].calls[2] = keys[req[r].nextIdx + 1])

\* C28: with a non-empty pool no request is answered 500 'OpenRouter API
\* key not configured', also when the clock moves between the selection
\* that returned none and the allKeysRateLimited call
C28_NoNotConfiguredWithKeys ==
    \A r \in DOMAIN req :
        Len(keys) > 0 =>
            ~(req[r].res.status = 500 /\ req[r].res.body = "not configured")

\* C29: a request is answered 400 only when its body failed validation
C29_400OnlyForInvalidInput ==
    \A r \in DOMAIN req :
        req[r].res.status = 400 => ~req[r].valid

\* the response of the request r is an event stream: its headers are set
Streaming(r) == req[r].res.body = "event-stream"

\* C30: a response that is being streamed is ended later on, when the body
\* is done or a read fails; it is then ended by one res.end() call, its
\* status is still 200, also after a read error in mid-stream, and the
\* handler has returned
C30_StreamEndsOnce ==
    /\ (req[1].pc = "read") ~> (req[1].pc = "done" /\ req[1].res.ended)
    /\ [](req[1].pc = "read" =>
              (/\ Streaming(1) /\ req[1].res.status = 200
               /\ ~req[1].res.ended /\ req[1].res.ends = 0))
    /\ []((Streaming(1) /\ req[1].pc # "read") =>
              (/\ req[1].pc = "done"
               /\ req[1].res.status = 200
               /\ req[1].res.ended /\ req[1].res.ends = 1))

\* a read has failed after an event was written: the response holds the
\* event, is ended and has the status 200
C30_Witness ==
    /\ req[1].pc = "done" /\ req[1].readFailed
    /\ req[1].res.events # <<>>
    /\ req[1].pos < Len(req[1].body)
    /\ req[1].res.ended /\ req[1].res.ends = 1
    /\ req[1].res.status = 200

(***************************************************************************)
(* Claim about the rotation cursor, checked under SpecMgr.                 *)
(***************************************************************************)
\* C31: with a pool of N >= 1 keys the cursor is an integer from 0 to N - 1
\* in every state, whatever calls of getNextAvailableKey,
\* markKeyAsRateLimited and allKeysRateLimited were made
C31_CursorInPool ==
    Len(keys) >= 1 =>
        /\ currentKeyIndex \in Int
        /\ 0 <= currentKeyIndex
        /\ currentKeyIndex < Len(keys)

\* a selection has just returned the last index of a pool of two, with a
\* penalty recorded: the cursor has wrapped to 0
C31_Witness ==
    /\ Len(keys) = 2
    /\ lastSel.called /\ lastSel.idx = 1
    /\ currentKeyIndex = 0
    /\ DOMAIN keyRateLimitedUntil # {}

====
